---- MODULE Spec2Model ----
(***************************************************************************)
(* Model of openssl/src/base64.rs: the base64 block codec encode_block /   *)
(* decode_block and its two checked length calculators.                    *)
(*                                                                         *)
(* Bytes are naturals 0..255.  A text is a sequence of one-character       *)
(* strings.  c_int is a signed 32-bit integer: every checked_* operation   *)
(* reports overflow as None and never forms a value outside                *)
(* INT_MIN..INT_MAX.                                                       *)
(*                                                                         *)
(* Inputs up to MaxLen bytes / MaxTextLen characters are carried with      *)
(* their contents.  Inputs near the c_int limits are carried by their      *)
(* length only (the *_sized operators): a text is then summarised by its   *)
(* length and its number of trailing '=' characters.                       *)
(***************************************************************************)
EXTENDS Integers, Sequences, FiniteSets, TLC

(* ------------------------------ bounds -------------------------------- *)

\* longest byte sequence carried with its contents
MaxLen == 6
\* longest text carried with its contents
MaxTextLen == 5
\* half-width of the windows of lengths sampled around the c_int limits
Window == 4

(* ------------------------------ c_int --------------------------------- *)

INT_MAX == 2147483647
INT_MIN == -INT_MAX - 1

None == [some |-> FALSE, val |-> 0]
Some(v) == [some |-> TRUE, val |-> v]

Abs(a) == IF a < 0 THEN -a ELSE a

\* i32::checked_add: None when a + b leaves INT_MIN..INT_MAX
checked_add(a, b) ==
  IF b >= 0
  THEN IF a > INT_MAX - b THEN None ELSE Some(a + b)
  ELSE IF a < INT_MIN - b THEN None ELSE Some(a + b)

\* i32::checked_mul: None when a * b leaves INT_MIN..INT_MAX
checked_mul(a, b) ==
  IF a = 0 \/ b = 0 THEN Some(0)
  ELSE IF (a > 0) = (b > 0)
  THEN IF a = INT_MIN \/ b = INT_MIN THEN None
       ELSE IF Abs(a) > INT_MAX \div Abs(b) THEN None ELSE Some(a * b)
  ELSE LET neg == IF a < 0 THEN a ELSE b
           pos == IF a < 0 THEN b ELSE a
       IN IF neg < (INT_MIN + pos - 1) \div pos THEN None ELSE Some(a * b)

(* ------------------------ length calculators -------------------------- *)

\* a plausible slip: the padded group is added with wrapping arithmetic
encoded_len_wrapping(src_len) ==
  LET mul == checked_mul(src_len \div 3, 4)
  IN IF ~mul.some THEN None
     ELSE LET padded == IF src_len % 3 # 0
                        THEN IF mul.val > INT_MAX - 4
                             THEN (mul.val - INT_MAX - 1) + (4 - INT_MAX - 1)
                             ELSE mul.val + 4
                        ELSE mul.val
              len    == checked_add(padded, 1)
          IN IF ~len.some THEN None ELSE Some(len.val)

\* a plausible slip: saturating arithmetic in place of checked arithmetic
encoded_len_saturating(src_len) ==
  LET Sat(o) == IF o.some THEN o.val ELSE INT_MAX
      mul == Sat(checked_mul(src_len \div 3, 4))
      pad == IF src_len % 3 # 0 THEN Sat(checked_add(mul, 4)) ELSE mul
  IN Some(Sat(checked_add(pad, 1)))

\* a plausible slip: the slot for the nul terminator is forgotten
encoded_len_no_nul(src_len) ==
  LET mul == checked_mul(src_len \div 3, 4)
  IN IF ~mul.some THEN None
     ELSE LET padded == IF src_len % 3 # 0 THEN checked_add(mul.val, 4) ELSE mul
          IN IF ~padded.some THEN None ELSE Some(padded.val)

\* each `?` returns None as soon as a checked step overflows
encoded_len(src_len) ==
  LET mul == checked_mul(src_len \div 3, 4)
  IN IF ~mul.some THEN None
     ELSE LET padded == IF src_len % 3 # 0 THEN checked_add(mul.val, 4) ELSE mul
          IN IF ~padded.some THEN None
             ELSE LET len == checked_add(padded.val, 1)
                  IN IF ~len.some THEN None ELSE Some(len.val)

\* a plausible slip: the ratios of the two calculators are swapped
decoded_len_swapped(src_len) ==
  LET mul == checked_mul(src_len \div 3, 4)
  IN IF ~mul.some THEN None
     ELSE LET padded == IF src_len % 3 # 0 THEN checked_add(mul.val, 4) ELSE mul
          IN IF ~padded.some THEN None ELSE Some(padded.val)

decoded_len(src_len) ==
  LET mul == checked_mul(src_len \div 4, 3)
  IN IF ~mul.some THEN None
     ELSE LET padded == IF src_len % 4 # 0 THEN checked_add(mul.val, 3) ELSE mul
          IN IF ~padded.some THEN None ELSE Some(padded.val)

(* ------------------------- characters and bytes ----------------------- *)

\* the byte values inputs are built from: 'f', 'o', and the two extremes
ByteVals == {0, 102, 111, 255}
\* the characters arbitrary texts are built from: two alphabet symbols,
\* the padding character, two whitespace characters, one invalid character
TextChars == {"Z", "g", "=", " ", "\n", "*"}

\* the zero byte a freshly allocated text buffer holds
NUL == "NUL"

data_bin2ascii ==
  << "A", "B", "C", "D", "E", "F", "G", "H", "I", "J", "K", "L", "M",
     "N", "O", "P", "Q", "R", "S", "T", "U", "V", "W", "X", "Y", "Z",
     "a", "b", "c", "d", "e", "f", "g", "h", "i", "j", "k", "l", "m",
     "n", "o", "p", "q", "r", "s", "t", "u", "v", "w", "x", "y", "z",
     "0", "1", "2", "3", "4", "5", "6", "7", "8", "9", "+", "/" >>

AlphabetChars == {data_bin2ascii[i] : i \in 1..64}

\* char::is_whitespace on the characters a text can hold
WhiteSpace == {" ", "\t", "\n", "\r", "\f"}

BoundedSeq(S, n) == UNION {[1..k -> S] : k \in 0..n}

(* --------------------------- block transforms ------------------------- *)

conv_bin2ascii(a) == data_bin2ascii[(a % 64) + 1]

\* inverse table: '=' reads as the sextet 0, anything outside the alphabet
\* as the error value 255
conv_ascii2bin(c) ==
  IF c = "=" THEN 0
  ELSE IF c \in AlphabetChars
       THEN (CHOOSE i \in 1..64 : data_bin2ascii[i] = c) - 1
       ELSE 255

RECURSIVE EncodeGroups(_)
EncodeGroups(f) ==
  IF Len(f) = 0 THEN << >>
  ELSE IF Len(f) >= 3
  THEN LET l == f[1] * 65536 + f[2] * 256 + f[3]
       IN << conv_bin2ascii(l \div 262144), conv_bin2ascii(l \div 4096),
             conv_bin2ascii(l \div 64), conv_bin2ascii(l) >>
          \o EncodeGroups(SubSeq(f, 4, Len(f)))
  ELSE LET l == f[1] * 65536 + (IF Len(f) = 2 THEN f[2] * 256 ELSE 0)
       IN << conv_bin2ascii(l \div 262144), conv_bin2ascii(l \div 4096),
             IF Len(f) = 1 THEN "=" ELSE conv_bin2ascii(l \div 64), "=" >>

\* EVP_EncodeBlock: the characters written (with the nul terminator) and
\* the count returned (without it)
EVP_EncodeBlock(f) ==
  LET t == EncodeGroups(f)
  IN [ret |-> Len(t), written |-> t \o << NUL >>]

\* the count EVP_EncodeBlock returns for dlen bytes.  The C accumulator is
\* an int: past INT_MAX it wraps, which a caller that sized the buffer
\* with encoded_len never reaches.
EVP_EncodeBlock_ret(dlen) ==
  LET groups == dlen \div 3 + (IF dlen % 3 # 0 THEN 1 ELSE 0)
  IN IF groups > INT_MAX \div 4
     THEN 4 * (groups - 1073741824)
     ELSE 4 * groups

\* number of '=' EVP_EncodeBlock ends its output with
EVP_EncodeBlock_pad(dlen) ==
  IF dlen % 3 = 1 THEN 2 ELSE IF dlen % 3 = 2 THEN 1 ELSE 0

RECURSIVE TrimStart(_)
TrimStart(s) ==
  IF Len(s) > 0 /\ s[1] \in WhiteSpace THEN TrimStart(Tail(s)) ELSE s

RECURSIVE TrimEnd(_)
TrimEnd(s) ==
  IF Len(s) > 0 /\ s[Len(s)] \in WhiteSpace
  THEN TrimEnd(SubSeq(s, 1, Len(s) - 1))
  ELSE s

RECURSIVE DecodeGroups(_)
DecodeGroups(f) ==
  IF Len(f) < 4 THEN << >>
  ELSE LET l == conv_ascii2bin(f[1]) * 262144 + conv_ascii2bin(f[2]) * 4096
                + conv_ascii2bin(f[3]) * 64 + conv_ascii2bin(f[4])
       IN << l \div 65536, (l \div 256) % 256, l % 256 >>
          \o DecodeGroups(SubSeq(f, 5, Len(f)))

\* EVP_DecodeBlock: strips surrounding whitespace itself, fails (-1) on a
\* length that is no multiple of 4 or on a character that is neither in
\* the alphabet nor '=', and otherwise writes 3 bytes for every 4
\* characters, padded groups included
EVP_DecodeBlock(f) ==
  LET g == TrimEnd(TrimStart(f))
  IN IF Len(g) % 4 # 0 THEN [ret |-> -1, written |-> << >>]
     ELSE IF \E i \in 1..Len(g) : conv_ascii2bin(g[i]) >= 128
     THEN [ret |-> -1, written |-> << >>]
     ELSE [ret |-> 3 * (Len(g) \div 4), written |-> DecodeGroups(g)]

\* the count EVP_DecodeBlock returns for n characters free of surrounding
\* whitespace; valid says whether every character is acceptable
EVP_DecodeBlock_ret(n, valid) ==
  IF n % 4 # 0 \/ ~valid THEN -1 ELSE 3 * (n \div 4)

\* cvt_n: a negative return value becomes the error result
cvt_n(r) == IF r < 0 THEN [ok |-> FALSE, val |-> 0] ELSE [ok |-> TRUE, val |-> r]

(* ------------------------------ buffers ------------------------------- *)

\* vec![0; len]
Zeroed(len, zero) == [i \in 1..len |-> zero]

\* the callee writes `written` at the start of the buffer
WriteTo(out, written) ==
  [i \in 1..Len(out) |-> IF i <= Len(written) THEN written[i] ELSE out[i]]

\* Vec::truncate: no effect when n is not below the length
truncate(out, n) == IF n >= 0 /\ n < Len(out) THEN SubSeq(out, 1, n) ELSE out

\* Vec::pop, the popped value dropped: no effect on an empty vector
pop(out) == IF Len(out) = 0 THEN out ELSE SubSeq(out, 1, Len(out) - 1)

\* str::ends_with
ends_with(s, suffix) ==
  /\ Len(s) >= Len(suffix)
  /\ SubSeq(s, Len(s) - Len(suffix) + 1, Len(s)) = suffix

(* ------------------------------ encoder ------------------------------- *)

Panic == [status |-> "panic", cap |-> 0]

\* encode_block up to the allocation: the assertion on the input length
\* and the unwrap of encoded_len
encode_alloc(src_len) ==
  IF ~(src_len <= INT_MAX) THEN Panic
  ELSE LET len == encoded_len(src_len)
       IN IF ~len.some THEN Panic ELSE [status |-> "ok", cap |-> len.val]

EncPanic == [status |-> "panic", cap |-> 0, out_len |-> 0, text |-> << >>, text_len |-> 0]

\* a plausible slip: the buffer is returned without the truncation
encode_block_no_truncate(src) ==
  LET a == encode_alloc(Len(src))
  IN IF a.status = "panic" THEN EncPanic
     ELSE LET r   == EVP_EncodeBlock(src)
              out == WriteTo(Zeroed(a.cap, NUL), r.written)
          IN [status |-> "ok", cap |-> a.cap, out_len |-> r.ret,
              text |-> out, text_len |-> Len(out)]

\* a plausible slip: the truncation keeps the nul terminator
encode_block_keep_nul(src) ==
  LET a == encode_alloc(Len(src))
  IN IF a.status = "panic" THEN EncPanic
     ELSE LET r    == EVP_EncodeBlock(src)
              out  == WriteTo(Zeroed(a.cap, NUL), r.written)
              text == truncate(out, r.ret + 1)
          IN [status |-> "ok", cap |-> a.cap, out_len |-> r.ret,
              text |-> text, text_len |-> Len(text)]

encode_block(src) ==
  LET a == encode_alloc(Len(src))
  IN IF a.status = "panic" THEN EncPanic
     ELSE LET r    == EVP_EncodeBlock(src)
              out  == WriteTo(Zeroed(a.cap, NUL), r.written)
              text == truncate(out, r.ret)
          IN [status |-> "ok", cap |-> a.cap, out_len |-> r.ret,
              text |-> text, text_len |-> Len(text)]

\* encode_block on src_len bytes whose contents are not carried
encode_block_sized(src_len) ==
  LET a == encode_alloc(src_len)
  IN IF a.status = "panic" THEN EncPanic
     ELSE LET out_len == EVP_EncodeBlock_ret(src_len)
          IN [status |-> "ok", cap |-> a.cap, out_len |-> out_len, text |-> << >>,
              text_len |-> IF out_len >= 0 /\ out_len < a.cap THEN out_len ELSE a.cap]

(* ------------------------------ decoder ------------------------------- *)

\* decode_block up to the allocation: the assertion on the trimmed length
\* and the unwrap of decoded_len
decode_alloc(src_len) ==
  IF ~(src_len <= INT_MAX) THEN Panic
  ELSE LET len == decoded_len(src_len)
       IN IF ~len.some THEN Panic ELSE [status |-> "ok", cap |-> len.val]

\* a plausible slip: the return value is used without cvt_n, so -1 becomes
\* a huge usize and the truncation does nothing
decode_transform_unchecked(src, cap) ==
  LET r == EVP_DecodeBlock(src)
  IN [ok |-> TRUE, n |-> r.ret,
      out |-> truncate(WriteTo(Zeroed(cap, 0), r.written), r.ret)]

\* the unsafe block of decode_block: the transform, cvt_n and the truncation
decode_transform(src, cap) ==
  LET r       == EVP_DecodeBlock(src)
      out_len == cvt_n(r.ret)
  IN IF ~out_len.ok THEN [ok |-> FALSE, n |-> 0, out |-> << >>]
     ELSE [ok |-> TRUE, n |-> out_len.val,
           out |-> truncate(WriteTo(Zeroed(cap, 0), r.written), out_len.val)]

\* a plausible slip: the second '=' is not looked at
strip_padding_once(src, out) ==
  IF ends_with(src, << "=" >>) THEN pop(out) ELSE out

\* a plausible slip: '=' is looked for anywhere in the text
strip_padding_anywhere(src, out) ==
  IF \E i \in 1..Len(src) : src[i] = "="
  THEN IF ends_with(src, << "=", "=" >>) THEN pop(pop(out)) ELSE pop(out)
  ELSE out

\* the padding adjustment that ends decode_block
strip_padding(src, out) ==
  IF ends_with(src, << "=" >>)
  THEN IF ends_with(src, << "=", "=" >>) THEN pop(pop(out)) ELSE pop(out)
  ELSE out

DecPanic == [status |-> "panic", cap |-> 0, n |-> 0, raw |-> << >>, bytes |-> << >>, bytes_len |-> 0]
DecErr(cap) == [status |-> "err", cap |-> cap, n |-> 0, raw |-> << >>, bytes |-> << >>, bytes_len |-> 0]

\* a plausible slip: only leading whitespace is removed
trim_start_only(s) == TrimStart(s)

\* str::trim
trim(s) == TrimEnd(TrimStart(s))

\* the result carries, besides the returned bytes, the capacity allocated,
\* the count n the transform reported and the buffer raw as truncated to n
decode_block(text) ==
  LET src == trim(text)
      a   == decode_alloc(Len(src))
  IN IF a.status = "panic" THEN DecPanic
     ELSE LET t == decode_transform(src, a.cap)
          IN IF ~t.ok THEN DecErr(a.cap)
             ELSE LET out == strip_padding(src, t.out)
                  IN [status |-> "ok", cap |-> a.cap, n |-> t.n, raw |-> t.out,
                      bytes |-> out, bytes_len |-> Len(out)]

\* decode_block on a text whose contents are not carried: src_len is its
\* trimmed length, pad the number of '=' it ends with, valid whether the
\* transform accepts its characters
decode_block_sized(src_len, pad, valid) ==
  LET a == decode_alloc(src_len)
  IN IF a.status = "panic" THEN DecPanic
     ELSE LET out_len == cvt_n(EVP_DecodeBlock_ret(src_len, valid))
          IN IF ~out_len.ok THEN DecErr(a.cap)
             ELSE LET kept   == IF out_len.val < a.cap THEN out_len.val ELSE a.cap
                      popped == IF pad >= 1
                                THEN IF pad >= 2 THEN 2 ELSE 1
                                ELSE 0
                  IN [status |-> "ok", cap |-> a.cap, n |-> out_len.val, raw |-> << >>,
                      bytes |-> << >>,
                      bytes_len |-> IF kept >= popped THEN kept - popped ELSE 0]

(* ---------------------------- state machine --------------------------- *)

VARIABLES
  pc,       \* which call the caller made last
  src,      \* the bytes given to encode_block (empty when not carried)
  src_len,  \* their number
  enc,      \* what encode_block returned
  dsrc,     \* the text given to decode_block (empty when not carried)
  dsum,     \* for a text that is not carried: its trimmed length, the
            \* number of '=' it ends with, whether its characters are valid
  dec,      \* what decode_block returned
  calc      \* the last call of a length calculator: fn, arg, res

vars == << pc, src, src_len, enc, dsrc, dsum, dec, calc >>

NoEnc  == [status |-> "none", cap |-> 0, out_len |-> 0, text |-> << >>, text_len |-> 0]
NoDec  == [status |-> "none", cap |-> 0, n |-> 0, raw |-> << >>, bytes |-> << >>, bytes_len |-> 0]
NoSum  == [len |-> 0, pad |-> 0, valid |-> TRUE]
NoCalc == [fn |-> "none", arg |-> 0, res |-> None]

\* the largest input length whose encoding, nul slot included, fits a c_int
EncodeLimit == 3 * (INT_MAX \div 4)

\* lengths around the c_int limits
LargeLens ==
  {EncodeLimit + d : d \in (-Window) .. Window}
    \cup {INT_MAX - d : d \in 0 .. Window}

\* arguments the length calculators are called with
LenSamples == (0 .. (4 * MaxLen)) \cup LargeLens

ByteSeqs == BoundedSeq(ByteVals, MaxLen)
Texts    == BoundedSeq(TextChars, MaxTextLen)

Init ==
  /\ pc = "idle"
  /\ src = << >>
  /\ src_len = 0
  /\ enc = NoEnc
  /\ dsrc = << >>
  /\ dsum = NoSum
  /\ dec = NoDec
  /\ calc = NoCalc

\* encode_block(b)
EncodeBlock ==
  /\ pc = "idle"
  /\ \E b \in ByteSeqs :
       /\ src' = b
       /\ src_len' = Len(b)
       /\ enc' = encode_block(b)
  /\ pc' = "encoded"
  /\ UNCHANGED << dsrc, dsum, dec, calc >>

\* encode_block on an input near the c_int limits
EncodeBlockSized ==
  /\ pc = "idle"
  /\ \E n \in LargeLens :
       /\ src_len' = n
       /\ enc' = encode_block_sized(n)
  /\ pc' = "encoded_sized"
  /\ UNCHANGED << src, dsrc, dsum, dec, calc >>

\* decode_block(encode_block(b))
DecodeEncoded ==
  /\ pc = "encoded"
  /\ enc.status = "ok"
  /\ dsrc' = enc.text
  /\ dec' = decode_block(enc.text)
  /\ pc' = "roundtrip"
  /\ UNCHANGED << src, src_len, enc, dsum, calc >>

\* decode_block(" " + encode_block(b) + "\n")
DecodeWrapped ==
  /\ pc = "encoded"
  /\ enc.status = "ok"
  /\ dsrc' = << " " >> \o enc.text \o << "\n" >>
  /\ dec' = decode_block(dsrc')
  /\ pc' = "roundtrip_ws"
  /\ UNCHANGED << src, src_len, enc, dsum, calc >>

\* decode_block(encode_block(b)) on an input near the c_int limits
DecodeEncodedSized ==
  /\ pc = "encoded_sized"
  /\ enc.status = "ok"
  /\ dsum' = [len |-> enc.text_len, pad |-> EVP_EncodeBlock_pad(src_len), valid |-> TRUE]
  /\ dec' = decode_block_sized(dsum'.len, dsum'.pad, dsum'.valid)
  /\ pc' = "roundtrip_sized"
  /\ UNCHANGED << src, src_len, enc, dsrc, calc >>

\* decode_block(t) on an arbitrary text
DecodeBlock ==
  /\ pc = "idle"
  /\ \E t \in Texts :
       /\ dsrc' = t
       /\ dec' = decode_block(t)
  /\ pc' = "decoded"
  /\ UNCHANGED << src, src_len, enc, dsum, calc >>

\* decode_block on an arbitrary text with a trimmed length near the c_int limits
DecodeBlockSized ==
  /\ pc = "idle"
  /\ \E n \in LargeLens, k \in 0..2, v \in BOOLEAN :
       /\ dsum' = [len |-> n, pad |-> k, valid |-> v]
       /\ dec' = decode_block_sized(n, k, v)
  /\ pc' = "decoded_sized"
  /\ UNCHANGED << src, src_len, enc, dsrc, calc >>

\* encoded_len(n)
EncodedLen ==
  /\ pc = "idle"
  /\ \E n \in LenSamples :
       calc' = [fn |-> "encoded_len", arg |-> n, res |-> encoded_len(n)]
  /\ pc' = "calc"
  /\ UNCHANGED << src, src_len, enc, dsrc, dsum, dec >>

\* decoded_len(n)
DecodedLen ==
  /\ pc = "idle"
  /\ \E n \in LenSamples :
       calc' = [fn |-> "decoded_len", arg |-> n, res |-> decoded_len(n)]
  /\ pc' = "calc"
  /\ UNCHANGED << src, src_len, enc, dsrc, dsum, dec >>

Next ==
  \/ EncodeBlock
  \/ EncodeBlockSized
  \/ DecodeEncoded
  \/ DecodeWrapped
  \/ DecodeEncodedSized
  \/ DecodeBlock
  \/ DecodeBlockSized
  \/ EncodedLen
  \/ DecodedLen

Spec == Init /\ [][Next]_vars

(* ------------------------------- claims ------------------------------- *)

Encoded == pc \in {"encoded", "encoded_sized"}

\* C1 as stated: for every byte sequence b of length at most INT_MAX,
\* encode_block(b) returns a text and decode_block of it returns exactly b
C1_RoundTripUpToIntMax ==
  /\ (Encoded /\ src_len <= INT_MAX) => enc.status = "ok"
  /\ pc = "roundtrip" => (dec.status = "ok" /\ dec.bytes = src)
  /\ pc = "roundtrip_sized" => (dec.status = "ok" /\ dec.bytes_len = src_len)

\* C1 amended: for every byte sequence b of length at most
\* 3 * floor(INT_MAX / 4) = 1610612733, encode_block(b) returns a text and
\* decode_block of it returns exactly b (same bytes, same length)
C1_RoundTrip ==
  /\ (Encoded /\ src_len <= EncodeLimit) => enc.status = "ok"
  /\ pc = "roundtrip" =>
       (dec.status = "ok" /\ dec.bytes = src /\ Len(dec.bytes) = src_len)
  /\ pc = "roundtrip_sized" => (dec.status = "ok" /\ dec.bytes_len = src_len)

\* a four-byte input, encoded with two '=', came back unchanged
C1_Witness ==
  /\ pc = "roundtrip"
  /\ src_len = 4
  /\ ends_with(dsrc, << "=", "=" >>)
  /\ dec.bytes = src

\* C2: the text encode_block returns has length 0 for an empty input and
\* 4 * ceil(len / 3) otherwise, a multiple of 4, one less than the capacity
\* encoded_len computed
C2_EncodedLength ==
  (Encoded /\ enc.status = "ok") =>
    LET expected == IF src_len = 0 THEN 0 ELSE 4 * ((src_len + 2) \div 3)
    IN /\ enc.text_len = expected
       /\ pc = "encoded" => Len(enc.text) = expected
       /\ enc.text_len % 4 = 0
       /\ enc.text_len = enc.cap - 1

\* four bytes were encoded to eight characters
C2_Witness ==
  /\ pc = "encoded"
  /\ src_len = 4
  /\ Len(enc.text) = 8

\* C3: decode_block(" " + encode_block(b) + "\n") returns exactly b, the
\* same result as decode_block(encode_block(b))
C3_Whitespace ==
  pc = "roundtrip_ws" =>
    /\ dsrc = << " " >> \o enc.text \o << "\n" >>
    /\ dec.status = "ok"
    /\ dec.bytes = src
    /\ dec = decode_block(enc.text)

\* a padded text wrapped in whitespace was decoded to its four bytes
C3_Witness ==
  /\ pc = "roundtrip_ws"
  /\ src_len = 4
  /\ dsrc[1] = " " /\ dsrc[Len(dsrc)] = "\n" /\ dsrc[Len(dsrc) - 1] = "="
  /\ dec.bytes = src

\* the text as str::trim leaves it, computed from the ends inwards
Trimmed(s) ==
  LET keep == {i \in 1..Len(s) : s[i] \notin WhiteSpace}
  IN IF keep = {} THEN << >>
     ELSE LET lo == CHOOSE i \in keep : \A j \in keep : i <= j
              hi == CHOOSE i \in keep : \A j \in keep : i >= j
          IN SubSeq(s, lo, hi)

\* C4: a text whose trimmed length is not a multiple of 4 is answered with
\* the decode error, never with bytes
C4_RejectMalformed ==
  /\ (pc = "decoded" /\ Len(Trimmed(dsrc)) % 4 # 0) =>
       (dec.status = "err" /\ dec.bytes = << >>)
  /\ (pc = "decoded_sized" /\ dsum.len % 4 # 0) => dec.status = "err"

\* a text of three alphabet characters behind a blank was rejected
C4_Witness ==
  /\ pc = "decoded"
  /\ dsrc = << " ", "Z", "g", "g" >>
  /\ dec.status = "err"

\* C5 as stated: encode_block returns a text, and encoded_len a length,
\* for every input length in 0..INT_MAX
C5_NeverAbortsUpToIntMax ==
  /\ (Encoded /\ src_len \in 0..INT_MAX) => enc.status = "ok"
  /\ (pc = "calc" /\ calc.fn = "encoded_len" /\ calc.arg <= INT_MAX) => calc.res.some

\* C5 amended: encode_block returns a text, and encoded_len a length,
\* exactly for the input lengths in 0..1610612733 (3 * floor(INT_MAX / 4));
\* for the lengths 1610612734..INT_MAX encoded_len overflows and
\* encode_block aborts
C5_NeverAbortsUpToLimit ==
  /\ Encoded => (enc.status = "ok" <=> src_len <= EncodeLimit)
  /\ Encoded => enc.status \in {"ok", "panic"}
  /\ (pc = "calc" /\ calc.fn = "encoded_len") =>
       (calc.res.some <=> calc.arg <= EncodeLimit)

\* the longest input that can be encoded was encoded
C5_Witness ==
  /\ pc = "encoded_sized"
  /\ src_len = EncodeLimit
  /\ enc.status = "ok"
  /\ enc.cap = INT_MAX - 2

\* C6: the text encode_block returns ends with exactly two '=' when
\* len mod 3 = 1, exactly one when len mod 3 = 2, none when len mod 3 = 0,
\* and every character before them is one of the 64 alphabet symbols
C6_PaddingShape ==
  (pc = "encoded" /\ enc.status = "ok") =>
    LET t == enc.text
        k == IF src_len % 3 = 1 THEN 2 ELSE IF src_len % 3 = 2 THEN 1 ELSE 0
    IN /\ Len(t) >= k
       /\ \A i \in 1..Len(t) :
            IF i > Len(t) - k THEN t[i] = "="
            ELSE t[i] \in AlphabetChars /\ t[i] # "="

\* five bytes were encoded to a text ending with a single '='
C6_Witness ==
  /\ pc = "encoded"
  /\ src_len = 5
  /\ enc.text[8] = "="
  /\ enc.text[7] # "="

\* C7: for src_len in 0..INT_MAX, encoded_len returns
\* 4 * (src_len / 3) + (4 if src_len mod 3 # 0) + 1 when that fits a c_int
\* and None otherwise, never a wrapped or negative value
C7_EncodedLenChecked ==
  (pc = "calc" /\ calc.fn = "encoded_len") =>
    LET n    == calc.arg
        q    == n \div 3
        pad  == IF n % 3 # 0 THEN 4 ELSE 0
        fits == q <= (INT_MAX - pad - 1) \div 4
    IN /\ IF fits THEN calc.res = Some(4 * q + pad + 1) ELSE calc.res = None
       /\ calc.res.some => calc.res.val >= 1

\* the multiplication fitted, adding the padded group overflowed
C7_Witness ==
  /\ pc = "calc"
  /\ calc.fn = "encoded_len"
  /\ calc.arg = EncodeLimit + 1
  /\ calc.res = None

\* C8: when the transform reported n bytes, decode_block returns the first
\* n - k of them (not below 0), with k = 0 when the trimmed text does not
\* end with '=', 1 when it ends with exactly one, 2 when it ends with two
\* or more
C8_PaddingStrip ==
  (pc \in {"decoded", "roundtrip", "roundtrip_ws"} /\ dec.status = "ok") =>
    LET t    == Trimmed(dsrc)
        L    == Len(t)
        k    == IF L >= 1 /\ t[L] = "="
                THEN IF L >= 2 /\ t[L - 1] = "=" THEN 2 ELSE 1
                ELSE 0
        keep == IF dec.n >= k THEN dec.n - k ELSE 0
    IN /\ Len(dec.raw) = dec.n
       /\ dec.bytes = SubSeq(dec.raw, 1, keep)
       /\ Len(dec.raw) - Len(dec.bytes) <= 2

\* a text with '=' at its start only was decoded and nothing was removed
C8_Witness ==
  /\ pc = "decoded"
  /\ dsrc = << "=", "Z", "g", "g" >>
  /\ dec.status = "ok"
  /\ dec.n = 3
  /\ Len(dec.bytes) = 3

\* C9: in encode_block the transform reports one character less than the
\* capacity; in decode_block it reports at most the capacity
C9_Capacity ==
  /\ enc.status = "ok" => (enc.out_len = enc.cap - 1 /\ enc.text_len <= enc.cap)
  /\ dec.status = "ok" =>
       (dec.n >= 0 /\ dec.n <= dec.cap /\ dec.bytes_len <= dec.cap)

\* both transforms ran on a five-byte input within their buffers
C9_Witness ==
  /\ pc = "roundtrip"
  /\ src_len = 5
  /\ enc.out_len = 8 /\ enc.cap = 9
  /\ dec.n = 6 /\ dec.cap = 6

\* C10: for every trimmed length in 0..INT_MAX decoded_len returns
\* 3 * (len / 4) + (3 if len mod 4 # 0), so decode_block ends with bytes or
\* with the decode error and never aborts
C10_DecodeNeverAborts ==
  /\ (pc = "calc" /\ calc.fn = "decoded_len") =>
       calc.res = Some(3 * (calc.arg \div 4) + (IF calc.arg % 4 # 0 THEN 3 ELSE 0))
  /\ pc \in {"decoded", "decoded_sized", "roundtrip", "roundtrip_ws", "roundtrip_sized"} =>
       dec.status \in {"ok", "err"}
  /\ (pc = "decoded_sized" /\ (dsum.len % 4 # 0 \/ ~dsum.valid)) => dec.status = "err"

\* a text of INT_MAX characters was answered with the decode error
C10_Witness ==
  /\ pc = "decoded_sized"
  /\ dsum.len = INT_MAX
  /\ dec.status = "err"
  /\ dec.cap = EncodeLimit + 3

====
